---- MODULE Spec2Model ----
\* Decryption session of the secret store key server cluster
\* (secret_store/src/key_server_cluster/decryption_session.rs).
\*
\* One SessionImpl per participant of one decryption request.  SessionImpl's
\* entry points are modelled from decryption_session.rs.  The consensus
\* sub-session, the job sessions and the decryption job live in other files of
\* the crate (jobs/consensus_session.rs, jobs/job_session.rs,
\* jobs/decryption_job.rs); they are modelled from the specification and are
\* the definitions whose names start with cs_, job_ and dj_.
EXTENDS Integers, Sequences, FiniteSets, TLC

\* ---------------------------------------------------------------- bounds

\* node timeouts / session timeouts / session error messages the environment
\* raises in one run
MaxFaults == 2
\* threads that call wait() on the master session
MaxWaiters == 1
\* node ids that key shares and callers of SessionImpl::new are drawn from
MaxNodes == 3

\* ------------------------------------------------------- cluster set-ups

\* (number of participants, threshold) of the key shares that are explored
\* with timeouts and errors: the single-node cluster of
\* constructs_in_cluster_of_single_node and the smallest clusters with
\* threshold 0 and 1.  The 4-of-5 scheme of prepare_decryption_sessions is
\* explored in SpecNoFaults.
Configs == { <<1, 0>>, <<2, 0>>, <<3, 1>> }

\* ----------------------------------------------------------- error kinds

Ok == "Ok"
OkFalse == "Ok(false)"
OkTrue == "Ok(true)"
InvalidStateForRequest == "InvalidStateForRequest"
InvalidMessage == "InvalidMessage"
InvalidNodeForRequest == "InvalidNodeForRequest"
ConsensusUnreachable == "ConsensusUnreachable"
AccessDenied == "AccessDenied"
NodeDisconnected == "NodeDisconnected"
NotStartedSessionId == "NotStartedSessionId"
InvalidNodesConfiguration == "InvalidNodesConfiguration"
InvalidThreshold == "InvalidThreshold"

IsOk(res) == res \in {Ok, OkFalse, OkTrue}

\* ------------------------------------------------------ consensus states

WaitingForInitialization == "WaitingForInitialization"
EstablishingConsensus == "EstablishingConsensus"
ConsensusEstablished == "ConsensusEstablished"
WaitingForPartialResults == "WaitingForPartialResults"
Finished == "Finished"
Failed == "Failed"

\* -------------------------------------------------------------- helpers

EmptyFcn == [x \in {} |-> 0]

Restrict(f, S) == [x \in S |-> f[x]]

Put(f, k, v) == [x \in (DOMAIN f) \cup {k} |-> IF x = k THEN v ELSE f[x]]

Min(S) == CHOOSE x \in S : \A y \in S : x <= y

RECURSIVE FirstK(_, _)
\* the k smallest members of S (all of S when it has fewer)
FirstK(S, k) ==
    IF k = 0 \/ S = {} THEN {}
    ELSE {Min(S)} \cup FirstK(S \ {Min(S)}, k - 1)

RECURSIVE SetToSeq(_)
\* the members of S in ascending order
SetToSeq(S) ==
    IF S = {} THEN << >> ELSE <<Min(S)>> \o SetToSeq(S \ {Min(S)})

\* ------------------------------------------------------------ key shares
\* The group of the scheme is replaced by the integers modulo FieldPrime: a
\* point is written as its multiple of the generator, so point addition is
\* addition and scalar multiplication is multiplication modulo FieldPrime.

FieldPrime == 11

\* the document key the requester is to obtain (SECRET_PLAIN of the tests)
DocumentKey == 5

\* constant term of the sharing polynomial: the joint secret of the cluster
JointSecret == 7

\* common_point of the key share: the encryption nonce times the generator
CommonPoint == 3

\* encrypted_point of the key share
EncryptedPoint == (DocumentKey + CommonPoint * JointSecret) % FieldPrime

\* id_numbers[n]: the evaluation point of node n
IdNumber(n) == n

FInv(a) == CHOOSE x \in 1..(FieldPrime - 1) : (a * x) % FieldPrime = 1

RECURSIVE PolyEval(_, _)
\* JointSecret + c_1 x + ... + c_k x^k with c_i = 2 i + 1, modulo FieldPrime
PolyEval(x, k) ==
    IF k = 0 THEN JointSecret
    ELSE (PolyEval(x, k - 1) + (2 * k + 1) * (x ^ k)) % FieldPrime

\* secret_share of node n in a scheme of threshold t
SecretShare(n, t) == PolyEval(IdNumber(n), t)

RECURSIVE Lagrange(_, _)
\* Lagrange coefficient at zero of node i over the nodes in others
Lagrange(i, others) ==
    IF others = {} THEN 1
    ELSE LET j == Min(others)
         IN (IdNumber(j) * FInv((IdNumber(j) - IdNumber(i)) % FieldPrime)
               * Lagrange(i, others \ {j})) % FieldPrime

\* per-node shadow coefficient of a shadow decryption, as the requester
\* decrypts it
ShadowCoeff(n) == n + 1

\* DecryptionJob::process_partial_request: the partial decryption of node
\* self for the quorum other_nodes_ids
dj_partial_response(self, t, request) ==
    [ request_id |-> request.request_id,
      shadow_point |->
          (Lagrange(self, request.other_nodes_ids \ {self})
             * SecretShare(self, t) * CommonPoint) % FieldPrime,
      decrypt_shadow |->
          IF request.is_shadow_decryption THEN {ShadowCoeff(self)} ELSE {} ]

RECURSIVE SumPoints(_, _)
SumPoints(responses, S) ==
    IF S = {} THEN 0
    ELSE LET n == Min(S)
         IN (responses[n].shadow_point + SumPoints(responses, S \ {n})) % FieldPrime

RECURSIVE ShadowList(_, _)
ShadowList(responses, S) ==
    IF S = {} THEN << >>
    ELSE LET n == Min(S)
             r == responses[n].decrypt_shadow
             v == IF r = {} THEN 0 ELSE CHOOSE c \in r : TRUE
         IN <<v>> \o ShadowList(responses, S \ {n})

\* DecryptionJob::compute_response: the master combines the partial
\* decryptions it holds
dj_compute_response(responses, is_shadow_decryption) ==
    LET sum == SumPoints(responses, DOMAIN responses)
    IN IF is_shadow_decryption
       THEN [ decrypted_secret |-> sum,
              common_point |-> {CommonPoint},
              decrypt_shadows |-> {ShadowList(responses, DOMAIN responses)} ]
       ELSE [ decrypted_secret |-> (EncryptedPoint - sum) % FieldPrime,
              common_point |-> {},
              decrypt_shadows |-> {} ]

\* Option<Result<EncryptedDocumentKeyShadow, Error>>: {} is None
ResOk(v) == [ok |-> TRUE, value |-> {v}, err |-> Ok]
ResErr(e) == [ok |-> FALSE, value |-> {}, err |-> e]


\* ------------------------------------------------------------- messages

Msg(type) ==
    [ type |-> type, is_confirmed |-> FALSE, request_id |-> 0,
      is_shadow_decryption |-> FALSE, nodes |-> {}, shadow_point |-> 0,
      decrypt_shadow |-> {} ]

\* an outgoing message: cluster.send(to, msg)
Send(to, msg) == [to |-> to, msg |-> msg]

\* impl JobTransport for DecryptionConsensusTransport
ConsensusTransport_send_partial_request(node) ==
    Send(node, Msg("InitializeConsensusSession"))

ConsensusTransport_send_partial_response(node, response) ==
    Send(node, [Msg("ConfirmConsensusInitialization") EXCEPT !.is_confirmed = response])

\* send_partial_request that leaves the receiver out of the nodes it sends
JobTransport_send_partial_request_without_receiver(node, request) ==
    Send(node, [Msg("RequestPartialDecryption")
                   EXCEPT !.request_id = request.request_id,
                          !.is_shadow_decryption = request.is_shadow_decryption,
                          !.nodes = request.other_nodes_ids \ {node}])

\* impl JobTransport for DecryptionJobTransport
JobTransport_send_partial_request(node, request) ==
    Send(node, [Msg("RequestPartialDecryption")
                   EXCEPT !.request_id = request.request_id,
                          !.is_shadow_decryption = request.is_shadow_decryption,
                          !.nodes = request.other_nodes_ids])

JobTransport_send_partial_response(node, response) ==
    Send(node, [Msg("PartialDecryption")
                   EXCEPT !.request_id = response.request_id,
                          !.shadow_point = response.shadow_point,
                          !.decrypt_shadow = response.decrypt_shadow])

\* ---------------------------------------------------------- job sessions
\* JobSession: state, the nodes still asked (requests), the nodes that
\* declined or disconnected (rejects) and the responses received.

JobNew ==
    [ state |-> "Inactive", requests |-> {}, rejects |-> {},
      responses |-> EmptyFcn, request_id |-> 0, is_shadow_decryption |-> FALSE ]

\* JobSession::on_partial_response on the master, after the executor has
\* decided whether the response is accepted
job_on_partial_response(job, node, accept, response, t) ==
    IF job.state \notin {"Active", "Finished"}
    THEN [job |-> job, res |-> InvalidStateForRequest]
    ELSE IF node \notin job.requests
    THEN [job |-> job, res |-> InvalidNodeForRequest]
    ELSE IF accept
    THEN LET responses == Put(job.responses, node, response)
         IN [ job |-> [job EXCEPT !.requests = @ \ {node},
                                  !.responses = responses,
                                  !.state = IF Cardinality(DOMAIN responses) >= t + 1
                                            THEN "Finished" ELSE @],
              res |-> Ok ]
    ELSE LET requests == job.requests \ {node}
             enough == Cardinality(requests) + Cardinality(DOMAIN job.responses) >= t + 1
         IN [ job |-> [job EXCEPT !.requests = requests,
                                  !.rejects = @ \cup {node},
                                  !.state = IF enough THEN @ ELSE "Failed"],
              res |-> IF enough THEN Ok ELSE ConsensusUnreachable ]

\* JobSession::on_node_error that rejects the node but keeps its response
job_on_node_error_keeps_response(job, self, master, node, t) ==
    IF self # master
    THEN IF node # master
         THEN [job |-> job, res |-> Ok]
         ELSE [job |-> [job EXCEPT !.state = "Failed"], res |-> ConsensusUnreachable]
    ELSE IF node \in job.rejects \/ node \notin (job.requests \cup DOMAIN job.responses)
    THEN [job |-> job, res |-> Ok]
    ELSE LET requests == job.requests \ {node}
             responses == job.responses
             enough == Cardinality(requests) + Cardinality(DOMAIN responses) >= t + 1
             state == IF ~enough THEN "Failed"
                      ELSE IF job.state = "Finished" /\ Cardinality(DOMAIN responses) < t + 1
                      THEN "Active" ELSE job.state
         IN [ job |-> [job EXCEPT !.requests = requests, !.responses = responses,
                                  !.rejects = @ \cup {node}, !.state = state],
              res |-> IF enough THEN Ok ELSE ConsensusUnreachable ]

\* JobSession::on_node_error
job_on_node_error(job, self, master, node, t) ==
    IF self # master
    THEN IF node # master
         THEN [job |-> job, res |-> Ok]
         ELSE [job |-> [job EXCEPT !.state = "Failed"], res |-> ConsensusUnreachable]
    ELSE IF node \in job.rejects \/ node \notin (job.requests \cup DOMAIN job.responses)
    THEN [job |-> job, res |-> Ok]
    ELSE LET requests == job.requests \ {node}
             responses == Restrict(job.responses, (DOMAIN job.responses) \ {node})
             enough == Cardinality(requests) + Cardinality(DOMAIN responses) >= t + 1
             state == IF ~enough THEN "Failed"
                      ELSE IF job.state = "Finished" /\ Cardinality(DOMAIN responses) < t + 1
                      THEN "Active" ELSE job.state
         IN [ job |-> [job EXCEPT !.requests = requests, !.responses = responses,
                                  !.rejects = @ \cup {node}, !.state = state],
              res |-> IF enough THEN Ok ELSE ConsensusUnreachable ]

\* JobSession::on_session_timeout
job_on_session_timeout(job) ==
    IF job.state \in {"Finished", "Failed"}
    THEN [job |-> job, res |-> Ok]
    ELSE [job |-> [job EXCEPT !.state = "Failed"], res |-> ConsensusUnreachable]


\* ---------------------------------------------------- consensus session
\* ConsensusSession: its state, the consensus job (access-check agreement)
\* and, on the master, the computation job of the current compute round.
\* meta is the SessionMeta: self_node_id, master_node_id, threshold.

ConsensusNew ==
    [ state |-> WaitingForInitialization, consensus_job |-> JobNew,
      computation_job |-> JobNew ]

\* ConsensusSession::process_result
cs_process_result(cs) ==
    IF cs.state \in {WaitingForInitialization, EstablishingConsensus, ConsensusEstablished}
    THEN CASE cs.consensus_job.state = "Finished" ->
                  [cs EXCEPT !.state = ConsensusEstablished]
           [] cs.consensus_job.state = "Failed" -> [cs EXCEPT !.state = Failed]
           [] OTHER -> cs
    ELSE IF cs.state = WaitingForPartialResults
    THEN CASE cs.computation_job.state = "Finished" -> [cs EXCEPT !.state = Finished]
           [] cs.computation_job.state = "Failed" -> [cs EXCEPT !.state = Failed]
           [] OTHER -> cs
    ELSE cs

\* ConsensusSession::initialize (master): asks every other candidate, checks
\* the master's own access and records it as confirmed or rejected
cs_initialize(cs, meta, nodes, acl_self) ==
    IF cs.state # WaitingForInitialization
    THEN [cs |-> cs, res |-> InvalidStateForRequest, out |-> << >>]
    ELSE
    LET self == meta.self_node_id
        t == meta.threshold
        others == nodes \ {self}
        out == [i \in 1..Cardinality(others) |->
                   ConsensusTransport_send_partial_request(SetToSeq(others)[i])]
        active == [JobNew EXCEPT !.state = "Active", !.requests = nodes]
        r == job_on_partial_response(active, self, acl_self, TRUE, t)
        err == IF IsOk(r.res) THEN Ok
               ELSE IF nodes = {self} THEN AccessDenied ELSE r.res
    IN [ cs |-> cs_process_result(
                   [cs EXCEPT !.consensus_job = r.job, !.state = EstablishingConsensus]),
         res |-> err, out |-> out ]

\* ConsensusSession::on_consensus_message
cs_on_consensus_message(cs, meta, sender, message, acl_self) ==
    LET self == meta.self_node_id
        master == meta.master_node_id
        t == meta.threshold
    IN IF message.type = "InitializeConsensusSession"
       THEN \* slave: evaluate the access check and reply
            IF sender # master \/ self = master
            THEN [cs |-> cs, res |-> InvalidMessage, out |-> << >>]
            ELSE IF cs.consensus_job.state # "Inactive"
            THEN [cs |-> cs, res |-> InvalidStateForRequest, out |-> << >>]
            ELSE [ cs |-> cs_process_result(
                             [cs EXCEPT !.consensus_job.state =
                                            IF acl_self THEN "Finished" ELSE "Failed"]),
                   res |-> Ok,
                   out |-> << ConsensusTransport_send_partial_response(sender, acl_self) >> ]
       ELSE \* master: place the sender in confirmed or rejected
            IF self # master
            THEN [cs |-> cs, res |-> InvalidMessage, out |-> << >>]
            ELSE LET r == job_on_partial_response(cs.consensus_job, sender,
                                                  message.is_confirmed, TRUE, t)
                 IN [ cs |-> cs_process_result([cs EXCEPT !.consensus_job = r.job]),
                      res |-> r.res, out |-> << >> ]

\* ConsensusSession::select_consensus_group: exactly threshold + 1 confirmed
\* nodes, the master first if it is confirmed, then by ascending node id
cs_select_consensus_group(cs, meta) ==
    LET confirmed == DOMAIN cs.consensus_job.responses
        self == meta.self_node_id
    IN IF self \in confirmed
       THEN {self} \cup FirstK(confirmed \ {self}, meta.threshold)
       ELSE FirstK(confirmed, meta.threshold + 1)

\* ConsensusSession::disseminate_jobs with a DecryptionJob of the given
\* request id: a new computation job over the selected quorum
cs_disseminate_jobs(cs, meta, is_shadow_decryption, request_id) ==
    IF cs.state # ConsensusEstablished
    THEN [cs |-> cs, res |-> InvalidStateForRequest, out |-> << >>]
    ELSE
    LET self == meta.self_node_id
        t == meta.threshold
        group == cs_select_consensus_group(cs, meta)
        peers == group \ {self}
        request == [ request_id |-> request_id,
                     is_shadow_decryption |-> is_shadow_decryption,
                     other_nodes_ids |-> group ]
        out == [i \in 1..Cardinality(peers) |->
                   JobTransport_send_partial_request(SetToSeq(peers)[i], request)]
        active == [JobNew EXCEPT !.state = "Active", !.requests = group,
                                 !.request_id = request_id,
                                 !.is_shadow_decryption = is_shadow_decryption]
        job == IF self \in group
               THEN job_on_partial_response(active, self, TRUE,
                        dj_partial_response(self, t, request), t).job
               ELSE active
    IN IF Cardinality(group) < t + 1
       THEN [cs |-> cs, res |-> ConsensusUnreachable, out |-> << >>]
       ELSE [ cs |-> cs_process_result(
                        [cs EXCEPT !.computation_job = job,
                                   !.state = WaitingForPartialResults]),
              res |-> Ok, out |-> out ]

\* ConsensusSession::on_job_request (slave): validate the request, compute
\* the partial decryption and send it to the master
cs_on_job_request(cs, meta, sender, request) ==
    LET self == meta.self_node_id
        t == meta.threshold
        response == dj_partial_response(self, t, request)
    IN IF sender # meta.master_node_id
       THEN [cs |-> cs, res |-> InvalidMessage, out |-> << >>]
       ELSE IF cs.state # ConsensusEstablished
       THEN [cs |-> cs, res |-> InvalidStateForRequest, out |-> << >>]
       ELSE IF Cardinality(request.other_nodes_ids) # t + 1
               \/ self \notin request.other_nodes_ids
       THEN [cs |-> cs, res |-> InvalidMessage, out |-> << >>]
       ELSE [ cs |-> cs, res |-> Ok,
              out |-> << JobTransport_send_partial_response(sender, response) >> ]

\* ConsensusSession::on_job_response (master)
cs_on_job_response(cs, meta, sender, response) ==
    IF cs.state # WaitingForPartialResults
    THEN [cs |-> cs, res |-> InvalidStateForRequest]
    ELSE IF sender \notin cs.computation_job.requests
            \/ response.request_id # cs.computation_job.request_id
    THEN [cs |-> cs, res |-> InvalidNodeForRequest]
    ELSE LET r == job_on_partial_response(cs.computation_job, sender, TRUE,
                                          response, meta.threshold)
         IN [ cs |-> cs_process_result([cs EXCEPT !.computation_job = r.job]),
              res |-> r.res ]

\* ConsensusSession::on_session_completed (slave)
cs_on_session_completed(cs, meta, sender) ==
    IF sender # meta.master_node_id
    THEN [cs |-> cs, res |-> InvalidMessage]
    ELSE IF cs.state # ConsensusEstablished
    THEN [cs |-> cs, res |-> InvalidStateForRequest]
    ELSE [cs |-> [cs EXCEPT !.state = Finished], res |-> Ok]

\* ConsensusSession::result
cs_result(cs) ==
    IF cs.state # Finished
    THEN ResErr(InvalidStateForRequest)
    ELSE ResOk(dj_compute_response(cs.computation_job.responses,
                                   cs.computation_job.is_shadow_decryption))


\* ConsensusSession::on_node_error: the node moves to rejected; the result
\* is Ok(true) when the compute round must be restarted
cs_on_node_error(cs, meta, node) ==
    LET self == meta.self_node_id
        master == meta.master_node_id
        t == meta.threshold
    IN CASE cs.state = WaitingForInitialization /\ (self = master \/ node = master) ->
              [cs |-> [cs EXCEPT !.state = Failed], res |-> ConsensusUnreachable]
         [] cs.state \in {EstablishingConsensus, ConsensusEstablished} ->
              LET r == job_on_node_error(cs.consensus_job, self, master, node, t)
              IN [ cs |-> cs_process_result([cs EXCEPT !.consensus_job = r.job]),
                   res |-> IF IsOk(r.res) THEN OkFalse ELSE r.res ]
         [] cs.state = WaitingForPartialResults ->
              LET c == job_on_node_error(cs.computation_job, self, master, node, t)
              IN IF IsOk(c.res)
                 THEN \* not a node of the current compute round: it only
                      \* moves to rejected
                      [cs |-> [cs EXCEPT !.computation_job = c.job,
                                         !.consensus_job =
                                             job_on_node_error(cs.consensus_job, self,
                                                               master, node, t).job],
                       res |-> OkFalse]
                 ELSE LET r == job_on_node_error(cs.consensus_job, self, master, node, t)
                          cs2 == cs_process_result(
                                    [cs EXCEPT !.computation_job = c.job,
                                               !.consensus_job = r.job,
                                               !.state = EstablishingConsensus])
                      IN [ cs |-> cs2,
                           res |-> IF ~IsOk(r.res) THEN r.res
                                   ELSE IF r.job.state = "Finished" THEN OkTrue
                                   ELSE OkFalse ]
         [] OTHER -> [cs |-> cs, res |-> OkFalse]

RECURSIVE cs_timeout_nodes(_, _, _)
\* the loop of ConsensusSession::on_session_timeout over the timed out nodes
cs_timeout_nodes(cs, meta, timeouted) ==
    IF timeouted = {} THEN [cs |-> cs, res |-> Ok]
    ELSE LET node == Min(timeouted)
             r == job_on_node_error(cs.consensus_job, meta.self_node_id,
                                    meta.master_node_id, node, meta.threshold)
             cs2 == cs_process_result(
                       [cs EXCEPT !.consensus_job = r.job,
                                  !.state = EstablishingConsensus])
         IN IF ~IsOk(r.res) THEN [cs |-> cs2, res |-> r.res]
            ELSE cs_timeout_nodes(cs2, meta, timeouted \ {node})

\* ConsensusSession::on_session_timeout: every peer still asked is treated
\* as failed
cs_on_session_timeout(cs, meta) ==
    CASE cs.state = WaitingForPartialResults ->
           LET r == cs_timeout_nodes(cs, meta, cs.computation_job.requests)
           IN [ cs |-> r.cs,
                res |-> IF ~IsOk(r.res) THEN r.res
                        ELSE IF r.cs.state = ConsensusEstablished THEN OkTrue
                        ELSE OkFalse ]
      [] cs.state \in {WaitingForInitialization, EstablishingConsensus,
                       ConsensusEstablished} ->
           LET r == job_on_session_timeout(cs.consensus_job)
           IN [ cs |-> cs_process_result(
                          [cs EXCEPT !.consensus_job = r.job,
                                     !.state = EstablishingConsensus]),
                res |-> ConsensusUnreachable ]
      [] OTHER -> [cs |-> cs, res |-> OkFalse]


\* ------------------------------------------------------------ SessionImpl
\* SessionData: consensus_session, is_shadow_decryption (Option<bool>) and
\* result (Option<Result<..>>); an Option is a set with at most one member.
\* Every entry point returns the new SessionData (data), what it returned
\* (ret), the messages it handed to the cluster (out) and whether it called
\* completed.notify_all() (notify).

SessionNew ==
    [ consensus_session |-> ConsensusNew, is_shadow_decryption |-> {},
      result |-> {} ]

\* generation_session::check_cluster_nodes: this node must be a part of the
\* cluster
check_cluster_nodes(self_node_id, nodes) ==
    IF self_node_id \notin nodes THEN InvalidNodesConfiguration ELSE Ok

\* generation_session::check_threshold: threshold + 1 nodes are needed
check_threshold(t, nodes) ==
    IF Cardinality(nodes) < t + 1 THEN InvalidThreshold ELSE Ok

\* SessionImpl::new that checks the threshold before the nodes
new_checks_threshold_first(points, nodes, t, self_node_id) ==
    IF points.common_point = {} \/ points.encrypted_point = {}
    THEN [ret |-> NotStartedSessionId, data |-> {}]
    ELSE IF ~IsOk(check_threshold(t, nodes))
    THEN [ret |-> check_threshold(t, nodes), data |-> {}]
    ELSE IF ~IsOk(check_cluster_nodes(self_node_id, nodes))
    THEN [ret |-> check_cluster_nodes(self_node_id, nodes), data |-> {}]
    ELSE [ret |-> Ok, data |-> {SessionNew}]

\* SessionImpl::new: points are common_point and encrypted_point of the
\* key share (none or some), nodes the keys of its id_numbers, t its
\* threshold; the result is the error or the new session's data
new(points, nodes, t, self_node_id) ==
    IF points.common_point = {} \/ points.encrypted_point = {}
    THEN [ret |-> NotStartedSessionId, data |-> {}]
    ELSE IF ~IsOk(check_cluster_nodes(self_node_id, nodes))
    THEN [ret |-> check_cluster_nodes(self_node_id, nodes), data |-> {}]
    ELSE IF ~IsOk(check_threshold(t, nodes))
    THEN [ret |-> check_threshold(t, nodes), data |-> {}]
    ELSE [ret |-> Ok, data |-> {SessionNew}]

Panic == "panic"

Return(d, ret, out, notify) ==
    [data |-> d, ret |-> ret, out |-> out, notify |-> notify]

\* cluster.broadcast(msg): to every other node of the cluster
Broadcast(self, nodes, msg) ==
    LET peers == nodes \ {self}
    IN [i \in 1..Cardinality(peers) |-> Send(SetToSeq(peers)[i], msg)]

\* SessionCore::disseminate_jobs
disseminate_jobs(cs, meta, is_shadow_decryption, request_id) ==
    cs_disseminate_jobs(cs, meta, is_shadow_decryption, request_id)

\* initialize refusing to start when the master's own access check denies
initialize_requires_own_access(d, meta, nodes, acl_self, is_shadow_decryption, request_id) ==
    LET d1 == [d EXCEPT !.is_shadow_decryption = {is_shadow_decryption}]
        r == cs_initialize(d1.consensus_session, meta, nodes, acl_self)
        d2 == [d1 EXCEPT !.consensus_session = r.cs]
    IN IF ~acl_self THEN Return(d1, AccessDenied, << >>, FALSE)
       ELSE IF ~IsOk(r.res) THEN Return(d2, r.res, r.out, FALSE)
       ELSE IF r.cs.state # ConsensusEstablished THEN Return(d2, Ok, r.out, FALSE)
       ELSE LET j == disseminate_jobs(r.cs, meta, is_shadow_decryption, request_id)
                d3 == [d2 EXCEPT !.consensus_session = j.cs]
                res == cs_result(j.cs)
            IN IF ~IsOk(j.res) THEN Return(d3, j.res, r.out \o j.out, FALSE)
               ELSE IF ~res.ok THEN Return(d3, res.err, r.out \o j.out, FALSE)
               ELSE Return([d3 EXCEPT !.result = {res}], Ok, r.out \o j.out, TRUE)

\* initialize that reports success when the consensus session refuses to be
\* initialized
initialize_hides_refusal(d, meta, nodes, acl_self, is_shadow_decryption, request_id) ==
    LET d1 == [d EXCEPT !.is_shadow_decryption = {is_shadow_decryption}]
        r == cs_initialize(d1.consensus_session, meta, nodes, acl_self)
        d2 == [d1 EXCEPT !.consensus_session = r.cs]
    IN IF ~IsOk(r.res) THEN Return(d2, Ok, r.out, FALSE)
       ELSE IF r.cs.state # ConsensusEstablished THEN Return(d2, Ok, r.out, FALSE)
       ELSE LET j == disseminate_jobs(r.cs, meta, is_shadow_decryption, request_id)
                d3 == [d2 EXCEPT !.consensus_session = j.cs]
                res == cs_result(j.cs)
            IN IF ~IsOk(j.res) THEN Return(d3, j.res, r.out \o j.out, FALSE)
               ELSE IF ~res.ok THEN Return(d3, res.err, r.out \o j.out, FALSE)
               ELSE Return([d3 EXCEPT !.result = {res}], Ok, r.out \o j.out, TRUE)

\* initialize that does not store is_shadow_decryption in the session data
initialize_forgets_flag(d, meta, nodes, acl_self, is_shadow_decryption, request_id) ==
    LET r == cs_initialize(d.consensus_session, meta, nodes, acl_self)
        d2 == [d EXCEPT !.consensus_session = r.cs]
    IN IF ~IsOk(r.res) THEN Return(d2, r.res, r.out, FALSE)
       ELSE IF r.cs.state # ConsensusEstablished THEN Return(d2, Ok, r.out, FALSE)
       ELSE LET j == disseminate_jobs(r.cs, meta, is_shadow_decryption, request_id)
                d3 == [d2 EXCEPT !.consensus_session = j.cs]
                res == cs_result(j.cs)
            IN IF ~IsOk(j.res) THEN Return(d3, j.res, r.out \o j.out, FALSE)
               ELSE IF ~res.ok THEN Return(d3, res.err, r.out \o j.out, FALSE)
               ELSE Return([d3 EXCEPT !.result = {res}], Ok, r.out \o j.out, TRUE)

\* SessionImpl::initialize
initialize(d, meta, nodes, acl_self, is_shadow_decryption, request_id) ==
    LET d1 == [d EXCEPT !.is_shadow_decryption = {is_shadow_decryption}]
        r == cs_initialize(d1.consensus_session, meta, nodes, acl_self)
        d2 == [d1 EXCEPT !.consensus_session = r.cs]
    IN IF ~IsOk(r.res) THEN Return(d2, r.res, r.out, FALSE)
       ELSE IF r.cs.state # ConsensusEstablished THEN Return(d2, Ok, r.out, FALSE)
       ELSE LET j == disseminate_jobs(r.cs, meta, is_shadow_decryption, request_id)
                d3 == [d2 EXCEPT !.consensus_session = j.cs]
                res == cs_result(j.cs)
            IN IF ~IsOk(j.res) THEN Return(d3, j.res, r.out \o j.out, FALSE)
               ELSE IF ~res.ok THEN Return(d3, res.err, r.out \o j.out, FALSE)
               ELSE Return([d3 EXCEPT !.result = {res}], Ok, r.out \o j.out, TRUE)

\* on_consensus_message dropping the error of the consensus session instead
\* of returning it
on_consensus_message_swallows_error(d, meta, sender, message, acl_self, request_id) ==
    LET is_establishing_consensus ==
            d.consensus_session.state = EstablishingConsensus
        r == cs_on_consensus_message(d.consensus_session, meta, sender, message, acl_self)
        d1 == [d EXCEPT !.consensus_session = r.cs]
        is_consensus_established == r.cs.state = ConsensusEstablished
    IN IF ~IsOk(r.res) THEN Return(d1, Ok, r.out, FALSE)
       ELSE IF meta.self_node_id # meta.master_node_id
               \/ ~is_establishing_consensus \/ ~is_consensus_established
       THEN Return(d1, Ok, r.out, FALSE)
       ELSE IF d1.is_shadow_decryption = {} THEN Return(d1, Panic, r.out, FALSE)
       ELSE LET j == disseminate_jobs(r.cs, meta,
                         CHOOSE b \in d1.is_shadow_decryption : TRUE, request_id)
            IN Return([d1 EXCEPT !.consensus_session = j.cs], j.res,
                      r.out \o j.out, FALSE)

\* SessionImpl::on_consensus_message
on_consensus_message(d, meta, sender, message, acl_self, request_id) ==
    LET is_establishing_consensus ==
            d.consensus_session.state = EstablishingConsensus
        r == cs_on_consensus_message(d.consensus_session, meta, sender, message, acl_self)
        d1 == [d EXCEPT !.consensus_session = r.cs]
        is_consensus_established == r.cs.state = ConsensusEstablished
    IN IF ~IsOk(r.res) THEN Return(d1, r.res, r.out, FALSE)
       ELSE IF meta.self_node_id # meta.master_node_id
               \/ ~is_establishing_consensus \/ ~is_consensus_established
       THEN Return(d1, Ok, r.out, FALSE)
       ELSE IF d1.is_shadow_decryption = {} THEN Return(d1, Panic, r.out, FALSE)
       ELSE LET j == disseminate_jobs(r.cs, meta,
                         CHOOSE b \in d1.is_shadow_decryption : TRUE, request_id)
            IN Return([d1 EXCEPT !.consensus_session = j.cs], j.res,
                      r.out \o j.out, FALSE)

\* on_partial_decryption_requested that takes every request as sent by the
\* master
on_partial_decryption_requested_by_anyone(d, meta, sender, message) ==
    LET cs == d.consensus_session
        requester_known == meta.self_node_id = meta.master_node_id
                           \/ cs.consensus_job.state # "Inactive"
        r == cs_on_job_request(cs, meta, meta.master_node_id,
                 [ request_id |-> message.request_id,
                   is_shadow_decryption |-> message.is_shadow_decryption,
                   other_nodes_ids |-> message.nodes ])
    IN IF ~requester_known THEN Return(d, InvalidStateForRequest, << >>, FALSE)
       ELSE Return([d EXCEPT !.consensus_session = r.cs], r.res, r.out, FALSE)

\* SessionImpl::on_partial_decryption_requested
on_partial_decryption_requested(d, meta, sender, message) ==
    LET cs == d.consensus_session
        requester_known == meta.self_node_id = meta.master_node_id
                           \/ cs.consensus_job.state # "Inactive"
        r == cs_on_job_request(cs, meta, sender,
                 [ request_id |-> message.request_id,
                   is_shadow_decryption |-> message.is_shadow_decryption,
                   other_nodes_ids |-> message.nodes ])
    IN IF ~requester_known THEN Return(d, InvalidStateForRequest, << >>, FALSE)
       ELSE Return([d EXCEPT !.consensus_session = r.cs], r.res, r.out, FALSE)

\* on_partial_decryption handing the job a response without the sender's
\* shadow point
on_partial_decryption_drops_shadow_point(d, meta, nodes, sender, message, broadcast_ok) ==
    LET r == cs_on_job_response(d.consensus_session, meta, sender,
                 [ request_id |-> message.request_id,
                   shadow_point |-> 0,
                   decrypt_shadow |-> message.decrypt_shadow ])
        d1 == [d EXCEPT !.consensus_session = r.cs]
        res == cs_result(r.cs)
        out == Broadcast(meta.self_node_id, nodes, Msg("DecryptionSessionCompleted"))
    IN IF ~IsOk(r.res) THEN Return(d1, r.res, << >>, FALSE)
       ELSE IF r.cs.state # Finished THEN Return(d1, Ok, << >>, FALSE)
       ELSE IF ~broadcast_ok THEN Return(d1, NodeDisconnected, << >>, FALSE)
       ELSE IF ~res.ok THEN Return(d1, res.err, out, FALSE)
       ELSE Return([d1 EXCEPT !.result = {res}], Ok, out, TRUE)

\* on_partial_decryption signalling core.completed on every accepted partial
\* decryption instead of on the one that finishes the computation
on_partial_decryption_notifies_early(d, meta, nodes, sender, message, broadcast_ok) ==
    LET r == cs_on_job_response(d.consensus_session, meta, sender,
                 [ request_id |-> message.request_id,
                   shadow_point |-> message.shadow_point,
                   decrypt_shadow |-> message.decrypt_shadow ])
        d1 == [d EXCEPT !.consensus_session = r.cs]
        res == cs_result(r.cs)
        out == Broadcast(meta.self_node_id, nodes, Msg("DecryptionSessionCompleted"))
    IN IF ~IsOk(r.res) THEN Return(d1, r.res, << >>, FALSE)
       ELSE IF r.cs.state # Finished THEN Return(d1, Ok, << >>, TRUE)
       ELSE IF ~broadcast_ok THEN Return(d1, NodeDisconnected, << >>, FALSE)
       ELSE IF ~res.ok THEN Return(d1, res.err, out, FALSE)
       ELSE Return([d1 EXCEPT !.result = {res}], Ok, out, TRUE)

\* on_partial_decryption that reports success when the consensus session
\* rejects the response
on_partial_decryption_hides_rejection(d, meta, nodes, sender, message, broadcast_ok) ==
    LET r == cs_on_job_response(d.consensus_session, meta, sender,
                 [ request_id |-> message.request_id,
                   shadow_point |-> message.shadow_point,
                   decrypt_shadow |-> message.decrypt_shadow ])
        d1 == [d EXCEPT !.consensus_session = r.cs]
        res == cs_result(r.cs)
        out == Broadcast(meta.self_node_id, nodes, Msg("DecryptionSessionCompleted"))
    IN IF ~IsOk(r.res) THEN Return(d1, Ok, << >>, FALSE)
       ELSE IF r.cs.state # Finished THEN Return(d1, Ok, << >>, FALSE)
       ELSE IF ~broadcast_ok THEN Return(d1, NodeDisconnected, << >>, FALSE)
       ELSE IF ~res.ok THEN Return(d1, res.err, out, FALSE)
       ELSE Return([d1 EXCEPT !.result = {res}], Ok, out, TRUE)

\* on_partial_decryption that takes every response as one of the current
\* compute round
on_partial_decryption_of_any_round(d, meta, nodes, sender, message, broadcast_ok) ==
    LET r == cs_on_job_response(d.consensus_session, meta, sender,
                 [ request_id |-> d.consensus_session.computation_job.request_id,
                   shadow_point |-> message.shadow_point,
                   decrypt_shadow |-> message.decrypt_shadow ])
        d1 == [d EXCEPT !.consensus_session = r.cs]
        res == cs_result(r.cs)
        out == Broadcast(meta.self_node_id, nodes, Msg("DecryptionSessionCompleted"))
    IN IF ~IsOk(r.res) THEN Return(d1, r.res, << >>, FALSE)
       ELSE IF r.cs.state # Finished THEN Return(d1, Ok, << >>, FALSE)
       ELSE IF ~broadcast_ok THEN Return(d1, NodeDisconnected, << >>, FALSE)
       ELSE IF ~res.ok THEN Return(d1, res.err, out, FALSE)
       ELSE Return([d1 EXCEPT !.result = {res}], Ok, out, TRUE)

\* SessionImpl::on_partial_decryption; broadcast_ok is the outcome of
\* cluster.broadcast
on_partial_decryption(d, meta, nodes, sender, message, broadcast_ok) ==
    LET r == cs_on_job_response(d.consensus_session, meta, sender,
                 [ request_id |-> message.request_id,
                   shadow_point |-> message.shadow_point,
                   decrypt_shadow |-> message.decrypt_shadow ])
        d1 == [d EXCEPT !.consensus_session = r.cs]
        res == cs_result(r.cs)
        out == Broadcast(meta.self_node_id, nodes, Msg("DecryptionSessionCompleted"))
    IN IF ~IsOk(r.res) THEN Return(d1, r.res, << >>, FALSE)
       ELSE IF r.cs.state # Finished THEN Return(d1, Ok, << >>, FALSE)
       ELSE IF ~broadcast_ok THEN Return(d1, NodeDisconnected, << >>, FALSE)
       ELSE IF ~res.ok THEN Return(d1, res.err, out, FALSE)
       ELSE Return([d1 EXCEPT !.result = {res}], Ok, out, TRUE)

\* SessionImpl::on_session_completed
on_session_completed(d, meta, sender) ==
    LET r == cs_on_session_completed(d.consensus_session, meta, sender)
    IN Return([d EXCEPT !.consensus_session = r.cs], r.res, << >>, FALSE)

\* process_node_error recording the error of the consensus session without
\* signalling core.completed
process_node_error_forgets_notify(d, meta, node, request_id) ==
    LET r == IF node = {}
             THEN cs_on_session_timeout(d.consensus_session, meta)
             ELSE cs_on_node_error(d.consensus_session, meta, CHOOSE n \in node : TRUE)
        d1 == [d EXCEPT !.consensus_session = r.cs]
    IN IF r.res = OkFalse THEN Return(d1, Ok, << >>, FALSE)
       ELSE IF r.res = OkTrue
       THEN IF d1.is_shadow_decryption = {} THEN Return(d1, Panic, << >>, FALSE)
            ELSE LET j == disseminate_jobs(r.cs, meta,
                              CHOOSE b \in d1.is_shadow_decryption : TRUE, request_id)
                     d2 == [d1 EXCEPT !.consensus_session = j.cs]
                 IN IF IsOk(j.res) THEN Return(d2, Ok, j.out, FALSE)
                    ELSE Return([d2 EXCEPT !.result = {ResErr(j.res)}],
                                j.res, j.out, TRUE)
       ELSE Return([d1 EXCEPT !.result = {ResErr(r.res)}], r.res, << >>, FALSE)

\* process_node_error recording the node's loss as the session result also
\* when the consensus session tolerates it
process_node_error_records_tolerated(d, meta, node, request_id) ==
    LET r == IF node = {}
             THEN cs_on_session_timeout(d.consensus_session, meta)
             ELSE cs_on_node_error(d.consensus_session, meta, CHOOSE n \in node : TRUE)
        d1 == [d EXCEPT !.consensus_session = r.cs]
    IN IF r.res = OkFalse
       THEN Return([d1 EXCEPT !.result = {ResErr(NodeDisconnected)}], Ok, << >>, FALSE)
       ELSE IF r.res = OkTrue
       THEN IF d1.is_shadow_decryption = {} THEN Return(d1, Panic, << >>, FALSE)
            ELSE LET j == disseminate_jobs(r.cs, meta,
                              CHOOSE b \in d1.is_shadow_decryption : TRUE, request_id)
                     d2 == [d1 EXCEPT !.consensus_session = j.cs]
                 IN IF IsOk(j.res) THEN Return(d2, Ok, j.out, FALSE)
                    ELSE Return([d2 EXCEPT !.result = {ResErr(j.res)}],
                                j.res, j.out, TRUE)
       ELSE Return([d1 EXCEPT !.result = {ResErr(r.res)}], r.res, << >>, TRUE)

\* process_node_error that does not disseminate the jobs again when the
\* consensus session asks for a restart
process_node_error_without_restart(d, meta, node, request_id) ==
    LET r == IF node = {}
             THEN cs_on_session_timeout(d.consensus_session, meta)
             ELSE cs_on_node_error(d.consensus_session, meta, CHOOSE n \in node : TRUE)
        d1 == [d EXCEPT !.consensus_session = r.cs]
    IN IF r.res \in {OkFalse, OkTrue} THEN Return(d1, Ok, << >>, FALSE)
       ELSE Return([d1 EXCEPT !.result = {ResErr(r.res)}], r.res, << >>, TRUE)

\* process_node_error that keeps the session going when the consensus
\* session reports that too few nodes are left
process_node_error_survives_loss(d, meta, node, request_id) ==
    LET r == IF node = {}
             THEN cs_on_session_timeout(d.consensus_session, meta)
             ELSE cs_on_node_error(d.consensus_session, meta, CHOOSE n \in node : TRUE)
        d1 == [d EXCEPT !.consensus_session = r.cs]
    IN IF r.res = OkFalse THEN Return(d1, Ok, << >>, FALSE)
       ELSE IF r.res = OkTrue
       THEN IF d1.is_shadow_decryption = {} THEN Return(d1, Panic, << >>, FALSE)
            ELSE LET j == disseminate_jobs(r.cs, meta,
                              CHOOSE b \in d1.is_shadow_decryption : TRUE, request_id)
                     d2 == [d1 EXCEPT !.consensus_session = j.cs]
                 IN IF IsOk(j.res) THEN Return(d2, Ok, j.out, FALSE)
                    ELSE Return([d2 EXCEPT !.result = {ResErr(j.res)}],
                                j.res, j.out, TRUE)
       ELSE Return([d1 EXCEPT !.consensus_session.state = d.consensus_session.state],
                   Ok, << >>, FALSE)

\* SessionImpl::process_node_error; node is Some(node) or None
process_node_error(d, meta, node, request_id) ==
    LET r == IF node = {}
             THEN cs_on_session_timeout(d.consensus_session, meta)
             ELSE cs_on_node_error(d.consensus_session, meta, CHOOSE n \in node : TRUE)
        d1 == [d EXCEPT !.consensus_session = r.cs]
    IN IF r.res = OkFalse THEN Return(d1, Ok, << >>, FALSE)
       ELSE IF r.res = OkTrue
       THEN IF d1.is_shadow_decryption = {} THEN Return(d1, Panic, << >>, FALSE)
            ELSE LET j == disseminate_jobs(r.cs, meta,
                              CHOOSE b \in d1.is_shadow_decryption : TRUE, request_id)
                     d2 == [d1 EXCEPT !.consensus_session = j.cs]
                 IN IF IsOk(j.res) THEN Return(d2, Ok, j.out, FALSE)
                    ELSE Return([d2 EXCEPT !.result = {ResErr(j.res)}],
                                j.res, j.out, TRUE)
       ELSE Return([d1 EXCEPT !.result = {ResErr(r.res)}], r.res, << >>, TRUE)

\* SessionImpl::on_session_error
on_session_error(d, meta, sender, request_id) ==
    process_node_error(d, meta, {sender}, request_id)

\* on_node_timeout that does not name the timed out node
on_node_timeout_of_nobody(d, meta, node, request_id) ==
    [process_node_error(d, meta, {}, request_id) EXCEPT !.ret = Ok]

\* ClusterSession::on_node_timeout: the error is ignored, only the state
\* matters
on_node_timeout(d, meta, node, request_id) ==
    [process_node_error(d, meta, {node}, request_id) EXCEPT !.ret = Ok]

\* ClusterSession::on_session_timeout
on_session_timeout(d, meta, request_id) ==
    [process_node_error(d, meta, {}, request_id) EXCEPT !.ret = Ok]

\* SessionImpl::process_message
process_message(d, meta, nodes, sender, message, acl_self, request_id, broadcast_ok) ==
    CASE message.type \in {"InitializeConsensusSession",
                           "ConfirmConsensusInitialization"} ->
           on_consensus_message(d, meta, sender, message, acl_self, request_id)
      [] message.type = "RequestPartialDecryption" ->
           on_partial_decryption_requested(d, meta, sender, message)
      [] message.type = "PartialDecryption" ->
           on_partial_decryption(d, meta, nodes, sender, message, broadcast_ok)
      [] message.type = "DecryptionSessionError" ->
           on_session_error(d, meta, sender, request_id)
      [] message.type = "DecryptionSessionCompleted" ->
           on_session_completed(d, meta, sender)

\* ClusterSession::is_finished
is_finished(d) == d.consensus_session.state \in {Failed, Finished}


\* ------------------------------------------------------------------ state

VARIABLES
    id_numbers,   \* key_share.id_numbers.keys(): the participants
    threshold,    \* meta.threshold = key_share.threshold
    key_points,   \* key_share.common_point and encrypted_point: none or some
    constructed,  \* constructed[n]: what SessionImpl::new returned for node n
    acl,          \* acl[n]: does the ACL storage of node n permit the requester
    data,         \* data[n]: the SessionData of the session of node n
    cluster,      \* cluster[<<from, to>>]: messages sent and not yet processed
    completed,    \* completed[n]: notify_all() calls on core.completed of node n
    wait_pc,      \* wait_pc[w]: where thread w is in wait() on the master
    wait_ret,     \* wait_ret[w]: what wait() returned to thread w
    request_ids,  \* request ids generated so far by DecryptionJob::new_on_master
    faults        \* timeouts and error messages that had an effect so far

vars == << id_numbers, threshold, key_points, constructed, acl, data, cluster,
           completed, wait_pc, wait_ret, request_ids, faults >>

\* meta.master_node_id: the node that received the decryption request
master_node_id == CHOOSE n \in id_numbers : \A m \in id_numbers : m <= n

Meta(n) ==
    [ self_node_id |-> n, master_node_id |-> master_node_id,
      threshold |-> threshold ]

Waiters == 1..MaxWaiters

\* SessionImpl::new for every participant of a cluster set-up of C; the
\* access-check outcome of every node is fixed for the run
InitOf(C) ==
    /\ \E c \in C : id_numbers = 1..c[1] /\ threshold = c[2]
    /\ key_points = [common_point |-> {CommonPoint}, encrypted_point |-> {EncryptedPoint}]
    /\ constructed = [n \in id_numbers |-> new(key_points, id_numbers, threshold, n).ret]
    /\ \A n \in id_numbers : constructed[n] = Ok
    /\ acl \in [id_numbers -> BOOLEAN]
    /\ data = [n \in id_numbers |->
                  CHOOSE d \in new(key_points, id_numbers, threshold, n).data : TRUE]
    /\ cluster = [p \in id_numbers \X id_numbers |-> << >>]
    /\ completed = [n \in id_numbers |-> 0]
    /\ wait_pc = [w \in Waiters |-> "idle"]
    /\ wait_ret = [w \in Waiters |-> {}]
    /\ request_ids = 0
    /\ faults = 0

Init == InitOf(Configs)

RECURSIVE Enqueue(_, _, _)
\* the cluster queues after node from has sent the messages of out, in order
Enqueue(queues, from, out) ==
    IF out = << >> THEN queues
    ELSE Enqueue([queues EXCEPT ![<<from, Head(out).to>>] = Append(@, Head(out).msg)],
                 from, Tail(out))

\* Condvar::notify_all on the master's core.completed: every thread blocked
\* in wait() is woken
NotifyAll(pc) == [w \in Waiters |-> IF pc[w] = "waiting" THEN "woken" ELSE pc[w]]

\* the effects of one entry point call r of the session of node n
Apply(n, r, queues) ==
    /\ data' = [data EXCEPT ![n] = r.data]
    /\ cluster' = Enqueue(queues, n, r.out)
    /\ completed' = [completed EXCEPT ![n] = IF r.notify THEN @ + 1 ELSE @]
    /\ wait_pc' = IF r.notify /\ n = master_node_id THEN NotifyAll(wait_pc) ELSE wait_pc
    /\ request_ids' =
          IF r.data.consensus_session.computation_job.request_id
                # data[n].consensus_session.computation_job.request_id
          THEN request_ids + 1 ELSE request_ids
    /\ UNCHANGED << id_numbers, threshold, key_points, constructed, acl, wait_ret >>

\* a timeout or error message counts against MaxFaults when it changed a
\* session or signalled its condition variable
Effective == IF data' = data /\ completed' = completed THEN faults ELSE faults + 1

\* ---------------------------------------------------------------- actions

\* the key server calls initialize(is_shadow_decryption) on the master session
Initialize ==
    \E b \in BOOLEAN :
        /\ Apply(master_node_id,
                 initialize(data[master_node_id], Meta(master_node_id), id_numbers,
                            acl[master_node_id], b, request_ids + 1),
                 cluster)
        /\ UNCHANGED faults

\* the cluster hands the next message of the connection from -> to to the
\* session of node to: SessionImpl::process_message
Deliver ==
    \E from \in id_numbers, to \in id_numbers :
        /\ cluster[<<from, to>>] # << >>
        /\ Apply(to,
                 process_message(data[to], Meta(to), id_numbers, from,
                                 Head(cluster[<<from, to>>]), acl[to],
                                 request_ids + 1, TRUE),
                 [cluster EXCEPT ![<<from, to>>] = Tail(@)])
        /\ UNCHANGED faults

\* as Deliver, for a PartialDecryption message that completes the master's
\* computation while cluster.broadcast fails
DeliverBroadcastFails ==
    \E from \in id_numbers, to \in id_numbers :
        /\ cluster[<<from, to>>] # << >>
        /\ Head(cluster[<<from, to>>]).type = "PartialDecryption"
        /\ faults < MaxFaults
        /\ LET r == on_partial_decryption(data[to], Meta(to), id_numbers, from,
                                          Head(cluster[<<from, to>>]), FALSE)
           IN /\ r.ret = NodeDisconnected
              /\ Apply(to, r, [cluster EXCEPT ![<<from, to>>] = Tail(@)])
        /\ faults' = faults + 1

\* the cluster reports to the session of node n that the connection to
\* node is lost: ClusterSession::on_node_timeout
NodeTimeout ==
    \E n \in id_numbers, node \in id_numbers :
        /\ n # node
        /\ faults < MaxFaults
        /\ Apply(n, on_node_timeout(data[n], Meta(n), node, request_ids + 1), cluster)
        /\ faults' = Effective

\* the cluster reports to the session of node n that the session timed out:
\* ClusterSession::on_session_timeout
SessionTimeout ==
    \E n \in id_numbers :
        /\ faults < MaxFaults
        /\ Apply(n, on_session_timeout(data[n], Meta(n), request_ids + 1), cluster)
        /\ faults' = Effective

\* the cluster layer of node sender reports an error of its session to the
\* session of node n with a DecryptionSessionError message
SessionError ==
    \E n \in id_numbers, sender \in id_numbers :
        /\ n # sender
        /\ faults < MaxFaults
        /\ Apply(n,
                 process_message(data[n], Meta(n), id_numbers, sender,
                                 Msg("DecryptionSessionError"), acl[n],
                                 request_ids + 1, TRUE),
                 cluster)
        /\ faults' = Effective

\* Session::wait, up to the test of result: a thread takes the session lock
\* and returns the result if there is one, else blocks on core.completed
WaitCall ==
    \E w \in Waiters :
        /\ wait_pc[w] = "idle"
        /\ IF data[master_node_id].result # {}
           THEN /\ wait_pc' = [wait_pc EXCEPT ![w] = "done"]
                /\ wait_ret' = [wait_ret EXCEPT ![w] = data[master_node_id].result]
           ELSE /\ wait_pc' = [wait_pc EXCEPT ![w] = "waiting"]
                /\ UNCHANGED wait_ret
        /\ UNCHANGED << id_numbers, threshold, key_points, constructed, acl, data,
                        cluster, completed, request_ids, faults >>

\* Session::wait, after completed.wait() returned: the woken thread holds
\* the lock again and returns result, which it expects to be set
WaitReturn ==
    \E w \in Waiters :
        /\ wait_pc[w] = "woken"
        /\ IF data[master_node_id].result # {}
           THEN /\ wait_pc' = [wait_pc EXCEPT ![w] = "done"]
                /\ wait_ret' = [wait_ret EXCEPT ![w] = data[master_node_id].result]
           ELSE /\ wait_pc' = [wait_pc EXCEPT ![w] = "panicked"]
                /\ UNCHANGED wait_ret
        /\ UNCHANGED << id_numbers, threshold, key_points, constructed, acl, data,
                        cluster, completed, request_ids, faults >>

Next ==
    \/ Initialize
    \/ Deliver
    \/ DeliverBroadcastFails
    \/ NodeTimeout
    \/ SessionTimeout
    \/ SessionError
    \/ WaitCall
    \/ WaitReturn

Spec == Init /\ [][Next]_vars

\* runs without timeouts, error messages and transport failures, in the
\* cluster set-ups of Configs and in the five-node set-up of the tests
\* (threshold 3, so that four of the five nodes make a quorum)
NextNoFaults ==
    \/ Initialize
    \/ Deliver
    \/ WaitCall
    \/ WaitReturn

SpecNoFaults == InitOf(Configs \cup {<<5, 3>>}) /\ [][NextNoFaults]_vars

\* the cluster reports to the master session that the connection to a
\* slave is lost
NodeTimeoutOnMaster ==
    \E node \in id_numbers \ {master_node_id} :
        /\ faults < MaxFaults
        /\ Apply(master_node_id,
                 on_node_timeout(data[master_node_id], Meta(master_node_id), node,
                                 request_ids + 1),
                 cluster)
        /\ faults' = Effective

\* runs of the five-node set-up of the tests in which at most one access
\* check denies and the master loses connections to slaves
NextFive ==
    \/ Initialize
    \/ Deliver
    \/ NodeTimeoutOnMaster

InitFive ==
    /\ InitOf({<<5, 3>>})
    /\ Cardinality({n \in id_numbers : ~acl[n]}) <= 1

SpecFive == InitFive /\ [][NextFive]_vars

\* the key shares and callers SessionImpl::new is explored with: any set of
\* participants, any threshold, each point present or missing
InitNew ==
    /\ id_numbers \in SUBSET (1..MaxNodes)
    /\ threshold \in 0..MaxNodes
    /\ key_points \in [common_point : SUBSET {CommonPoint},
                        encrypted_point : SUBSET {EncryptedPoint}]
    /\ constructed = EmptyFcn
    /\ data = EmptyFcn
    /\ acl = EmptyFcn
    /\ cluster = EmptyFcn
    /\ completed = EmptyFcn
    /\ wait_pc = [w \in Waiters |-> "idle"]
    /\ wait_ret = [w \in Waiters |-> {}]
    /\ request_ids = 0
    /\ faults = 0

\* a key server constructs the session of node self_node_id from the key
\* share
New ==
    \E self_node_id \in (1..MaxNodes) \ DOMAIN constructed :
        LET r == new(key_points, id_numbers, threshold, self_node_id)
        IN /\ constructed' = Put(constructed, self_node_id, r.ret)
           /\ data' = IF IsOk(r.ret)
                      THEN Put(data, self_node_id, CHOOSE d \in r.data : TRUE)
                      ELSE data
           /\ UNCHANGED << id_numbers, threshold, key_points, acl, cluster,
                           completed, wait_pc, wait_ret, request_ids, faults >>

SpecNew == InitNew /\ [][New]_vars

\* ----------------------------------------------------------- properties

MasterData == data[master_node_id]

MasterState == MasterData.consensus_session.state

MasterResult == CHOOSE r \in MasterData.result : TRUE

Slaves == id_numbers \ {master_node_id}

NoMessagesInFlight == \A p \in id_numbers \X id_numbers : cluster[p] = << >>

\* initialize has been called on the master
Initialized == MasterData.is_shadow_decryption # {}

SessionState(n) == data[n].consensus_session.state

MasterOk == MasterData.result # {} /\ MasterResult.ok

\* the last message the master has queued for node n
LastToSlave(queues, n) ==
    queues[<<master_node_id, n>>][Len(queues[<<master_node_id, n>>])]

\* the master has just queued a message of the given type for every slave
BroadcastQueued(queues, type) ==
    \A n \in Slaves :
        /\ queues[<<master_node_id, n>>] # << >>
        /\ LastToSlave(queues, n).type = type

\* C1: on the master of a cluster of two or more nodes, once the consensus
\* session is Finished or Failed a result has been recorded and no thread is
\* left blocked in wait().
C1_TerminalMasterHasResult ==
    (Slaves # {} /\ is_finished(MasterData)) =>
        /\ MasterData.result # {}
        /\ \A w \in Waiters : wait_pc[w] # "waiting"

\* C2: wait() returns only when the result is set, what it returned is the
\* recorded result, it never panics on a missing result, and no thread stays
\* blocked once the result is set.
C2_WaitReturnsTheResult ==
    \A w \in Waiters :
        /\ wait_pc[w] # "panicked"
        /\ wait_pc[w] = "done" =>
              wait_ret[w] # {} /\ wait_ret[w] = MasterData.result
        /\ wait_pc[w] = "waiting" => MasterData.result = {}

\* a thread that blocked in wait() was woken and returned the result
C2_BlockedWaiterReturned ==
    \E w \in Waiters :
        /\ wait_pc[w] = "done"
        /\ wait_ret[w] = MasterData.result
        /\ completed[master_node_id] = 1

\* C3: a session result that is set is never replaced by another value.
C3_ResultIsWriteOnce ==
    [][\A n \in id_numbers :
          data[n].result # {} => data'[n].result = data[n].result]_vars

\* a session that recorded its result twice still holds one result
C3_ResultRecordedTwice ==
    \E n \in id_numbers : data[n].result # {} /\ completed[n] >= 2

\* C4: the condition variable of a session is notified at most once, and
\* only when the result of the session is set.
C4_NotifiedOnceAfterResult ==
    \A n \in id_numbers :
        /\ completed[n] <= 1
        /\ completed[n] > 0 => data[n].result # {}

\* C5: when every access check approves, nothing times out and every message
\* has been delivered after initialize on the master, every participant's
\* session is Finished, the master holds an Ok result and no slave holds a
\* result.
C5_AllFinishWhenAllApprove ==
    ((\A n \in id_numbers : acl[n]) /\ Initialized /\ NoMessagesInFlight) =>
        /\ \A n \in id_numbers : SessionState(n) = Finished
        /\ MasterOk
        /\ \A n \in Slaves : data[n].result = {}

\* C6: a plain decryption result of the master is the document key,
\* whichever t+1 nodes contributed (the master among them or not, the first
\* quorum or one formed after a restart).
C6_PlainResultIsDocumentKey ==
    MasterOk =>
        \A v \in MasterResult.value :
            v.common_point = {} => v.decrypted_secret = DocumentKey

\* the master combined the document key from partial decryptions of slaves only
C6_QuorumWithoutMasterDecrypted ==
    /\ MasterOk
    /\ \E v \in MasterResult.value :
          v.common_point = {} /\ v.decrypted_secret = DocumentKey
    /\ master_node_id \notin DOMAIN MasterData.consensus_session.computation_job.responses
    /\ Cardinality(DOMAIN MasterData.consensus_session.computation_job.responses)
          = threshold + 1

\* C7: every step that makes the initialized master session Failed records an
\* Err result, leaves no thread blocked in wait() and broadcasts
\* DecryptionSessionError.
C7_FailureIsRecordedAndBroadcast ==
    [][(Initialized /\ MasterState # Failed /\ MasterState' = Failed) =>
          /\ MasterData'.result # {}
          /\ ~MasterResult'.ok
          /\ \A w \in Waiters : wait_pc'[w] # "waiting"
          /\ BroadcastQueued(cluster', "DecryptionSessionError")]_vars

\* C8: every step that makes the master session Finished broadcasts
\* DecryptionSessionCompleted to the other participants, records an Ok result
\* and leaves no thread blocked in wait().
C8_FinishIsBroadcastAndRecorded ==
    [][(MasterState # Finished /\ MasterState' = Finished) =>
          /\ BroadcastQueued(cluster', "DecryptionSessionCompleted")
          /\ MasterData'.result # {}
          /\ MasterResult'.ok
          /\ \A w \in Waiters : wait_pc'[w] # "waiting"]_vars

\* the consensus job of the master: nodes still asked or confirmed
ConsensusHeadcount(job) == Cardinality(job.requests \cup DOMAIN job.responses)

\* a denying ConfirmConsensusInitialization of a requested slave is next on
\* the connection from that slave to the master
DenialNext(from) ==
    /\ from \in MasterData.consensus_session.consensus_job.requests
    /\ cluster[<<from, master_node_id>>] # << >>
    /\ Head(cluster[<<from, master_node_id>>]).type = "ConfirmConsensusInitialization"
    /\ ~Head(cluster[<<from, master_node_id>>]).is_confirmed

\* C9: a master that is establishing consensus still has t+1 nodes asked or
\* confirmed; the denying reply that leaves fewer makes it Failed and
\* returns ConsensusUnreachable, any other denying reply leaves it
\* establishing consensus; and with five nodes, threshold 3 and denial at two
\* or more slaves the master and at least three sessions in all end Failed.
C9_DenialsMakeConsensusUnreachable ==
    /\ MasterState = EstablishingConsensus =>
          ConsensusHeadcount(MasterData.consensus_session.consensus_job) >= threshold + 1
    /\ \A from \in Slaves :
          (MasterState = EstablishingConsensus /\ DenialNext(from)) =>
              LET r == on_consensus_message(MasterData, Meta(master_node_id), from,
                           Head(cluster[<<from, master_node_id>>]),
                           acl[master_node_id], request_ids + 1)
                  cs == r.data.consensus_session
              IN IF ConsensusHeadcount(cs.consensus_job) < threshold + 1
                 THEN cs.state = Failed /\ r.ret = ConsensusUnreachable
                 ELSE cs.state = EstablishingConsensus /\ r.ret = Ok
    /\ (/\ Cardinality(id_numbers) = 5
        /\ Cardinality({n \in Slaves : ~acl[n]}) >= 2
        /\ Initialized
        /\ NoMessagesInFlight) =>
           /\ MasterState = Failed
           /\ Cardinality({n \in id_numbers : SessionState(n) = Failed}) >= 3

\* five nodes, two slaves denied, everything delivered: the master and the
\* two denying slaves are Failed
C9_TwoDenialsOfFive ==
    /\ Cardinality(id_numbers) = 5
    /\ threshold = 3
    /\ acl[master_node_id]
    /\ Cardinality({n \in Slaves : ~acl[n]}) = 2
    /\ Initialized
    /\ NoMessagesInFlight
    /\ MasterState = Failed
    /\ \A n \in Slaves : ~acl[n] => SessionState(n) = Failed

\* C10: a master whose own access check denies never computes a partial
\* decryption itself, and with t+1 or more approving slaves it ends
\* Finished with an Ok result once every message has been delivered.
C10_DeniedMasterStillCoordinates ==
    ~acl[master_node_id] =>
        /\ master_node_id \notin
              (MasterData.consensus_session.computation_job.requests
                 \cup DOMAIN MasterData.consensus_session.computation_job.responses)
        /\ (/\ Cardinality({n \in Slaves : acl[n]}) >= threshold + 1
            /\ Initialized
            /\ NoMessagesInFlight) =>
               MasterState = Finished /\ MasterOk

\* the denied master of five nodes finished on the partial decryptions of
\* its four approving slaves
C10_DeniedMasterFinished ==
    /\ ~acl[master_node_id]
    /\ Cardinality(id_numbers) = 5
    /\ MasterState = Finished
    /\ MasterOk
    /\ DOMAIN MasterData.consensus_session.computation_job.responses = Slaves
    /\ NoMessagesInFlight

\* C11: on_session_timeout on a master session that was never initialized
\* makes it terminal with result Err(ConsensusUnreachable) and wakes every
\* thread blocked in wait(); a woken thread returns the recorded result.
C11_TimeoutBeforeInitializeFails ==
    [][/\ (/\ MasterData = SessionNew
           /\ MasterData' # MasterData
           /\ MasterData' = on_session_timeout(MasterData, Meta(master_node_id),
                                                request_ids + 1).data) =>
             /\ is_finished(MasterData')
             /\ MasterData'.result = {ResErr(ConsensusUnreachable)}
             /\ \A w \in Waiters : wait_pc[w] = "waiting" => wait_pc'[w] = "woken"
       /\ \A w \in Waiters :
             (wait_pc[w] = "woken" /\ wait_pc'[w] # "woken") =>
                 wait_pc'[w] = "done" /\ wait_ret'[w] = MasterData.result]_vars

\* a thread that blocked in wait() on a master that was never initialized
\* returned Err(ConsensusUnreachable)
C11_WaiterGotConsensusUnreachable ==
    /\ ~Initialized
    /\ MasterState = Failed
    /\ MasterData.result = {ResErr(ConsensusUnreachable)}
    /\ completed[master_node_id] = 1
    /\ \E w \in Waiters :
          wait_pc[w] = "done" /\ wait_ret[w] = {ResErr(ConsensusUnreachable)}

\* the master's session after on_node_timeout(n)
AfterNodeTimeout(n) ==
    on_node_timeout(MasterData, Meta(master_node_id), n, request_ids + 1).data

\* C12: after on_node_timeout(n) on an initialized master that is
\* establishing consensus or waiting for partial results, n is rejected and
\* the master is Failed exactly when fewer than threshold + 1 participants
\* remain outside the rejected set; with 5 nodes and threshold 3 the first
\* timeout right after initialize leaves EstablishingConsensus and the
\* second one fails the session
C12_NodeTimeoutRejectsAndFailsBelowQuorum ==
    \A n \in id_numbers :
        (Initialized /\ MasterState \in {EstablishingConsensus, WaitingForPartialResults}) =>
            LET cs == AfterNodeTimeout(n).consensus_session
                before == MasterData.consensus_session.consensus_job
            IN /\ n \in cs.consensus_job.rejects
               /\ cs.state = Failed <=>
                      Cardinality(id_numbers \ cs.consensus_job.rejects) < threshold + 1
               /\ (/\ Cardinality(id_numbers) = 5 /\ threshold = 3
                   /\ MasterState = EstablishingConsensus
                   /\ DOMAIN before.responses \subseteq {master_node_id}
                   /\ n \in Slaves \ before.rejects) =>
                      cs.state = IF before.rejects = {} THEN EstablishingConsensus
                                 ELSE Failed

\* two of five approving nodes timed out and the master failed
C12_SecondTimeoutOfFiveFailed ==
    /\ Cardinality(id_numbers) = 5 /\ threshold = 3
    /\ \A n \in id_numbers : acl[n]
    /\ MasterState = Failed
    /\ Cardinality(MasterData.consensus_session.consensus_job.rejects) = 2
    /\ MasterData.result = {ResErr(ConsensusUnreachable)}

\* the nodes of the master's current compute round
ComputeQuorum ==
    LET job == MasterData.consensus_session.computation_job
    IN job.requests \cup DOMAIN job.responses

\* the master's step on the timeout of n
NodeTimeoutStep(n) ==
    on_node_timeout(MasterData, Meta(master_node_id), n, request_ids + 1)

\* the step re-disseminated the jobs: a new compute round with a fresh
\* request id over a quorum without n, requested from every other member
Redisseminated(n, r) ==
    LET job == r.data.consensus_session.computation_job
        group == job.requests \cup DOMAIN job.responses
    IN /\ r.data.consensus_session.state = WaitingForPartialResults
       /\ job.request_id # MasterData.consensus_session.computation_job.request_id
       /\ n \notin group
       /\ Cardinality(group) = threshold + 1
       /\ \A p \in group \ {master_node_id} :
             \E i \in DOMAIN r.out :
                 /\ r.out[i].to = p
                 /\ r.out[i].msg.type = "RequestPartialDecryption"
                 /\ r.out[i].msg.request_id = job.request_id

\* the nodes whose access check approves and that the master has not rejected
ApprovingSurvivors ==
    {n \in id_numbers : acl[n]} \ MasterData.consensus_session.consensus_job.rejects

\* the five-node set-up under fair message delivery: every message in
\* flight is eventually processed by its receiver. Deliver is enabled
\* exactly when a message is in flight and every Deliver step consumes one,
\* so this is weak fairness of Deliver (WF_vars(Deliver)) stated through
\* its enabling condition
FairFive == SpecFive /\ []<>NoMessagesInFlight

\* a compute round has been started by the master
ComputeRoundStarted ==
    MasterData.consensus_session.computation_job.state # "Inactive"

\* C13: when a slave of the current compute quorum times out while the
\* master waits for partial results, whether or not its partial decryption
\* was received, it is moved to rejected and is no longer requested; unless
\* too few nodes are left the master is back in EstablishingConsensus or has
\* re-disseminated the jobs with a fresh request id to a quorum without it;
\* and while threshold + 1 approving nodes survive, delivery of the messages
\* leads the master to Finished
C13_QuorumMemberTimeoutRestarts ==
    /\ [](\A n \in ComputeQuorum \cap Slaves :
            MasterState = WaitingForPartialResults =>
               LET r == NodeTimeoutStep(n)
                   cs == r.data.consensus_session
               IN /\ n \in cs.consensus_job.rejects
                  /\ n \notin cs.computation_job.requests
                  /\ Cardinality(id_numbers \ cs.consensus_job.rejects) >= threshold + 1 =>
                        \/ /\ cs.state = EstablishingConsensus
                           /\ n \in cs.computation_job.rejects
                        \/ Redisseminated(n, r))
    /\ [](ComputeRoundStarted =>
             <>(MasterState = Finished \/ Cardinality(ApprovingSurvivors) < threshold + 1))

\* the master finished in a compute round started after a quorum member
\* had timed out
C13_FinishedAfterRestart ==
    /\ MasterOk
    /\ MasterData.consensus_session.computation_job.request_id >= 2
    /\ MasterData.consensus_session.consensus_job.rejects # {}
    /\ \A n \in id_numbers : acl[n]

\* a PartialDecryption is next on the connection from a slave to the master
\* and answers another compute round than the master's current one
StaleResponseNext(from) ==
    /\ MasterState = WaitingForPartialResults
    /\ cluster[<<from, master_node_id>>] # << >>
    /\ Head(cluster[<<from, master_node_id>>]).type = "PartialDecryption"
    /\ Head(cluster[<<from, master_node_id>>]).request_id
          # MasterData.consensus_session.computation_job.request_id

\* C14: every partial decryption recorded by the master answers the request
\* of the current compute round (its request id, computed for the current
\* quorum); a PartialDecryption of another round is rejected with
\* InvalidNodeForRequest and changes nothing on the master
C14_OnlyCurrentRoundIsRecorded ==
    LET job == MasterData.consensus_session.computation_job
    IN /\ \A n \in DOMAIN job.responses :
             /\ job.responses[n].request_id = job.request_id
             /\ MasterState \in {WaitingForPartialResults, Finished} =>
                    job.responses[n] =
                        dj_partial_response(n, threshold,
                            [ request_id |-> job.request_id,
                              is_shadow_decryption |-> job.is_shadow_decryption,
                              other_nodes_ids |-> ComputeQuorum ])
       /\ \A from \in Slaves :
             StaleResponseNext(from) =>
                 LET r == on_partial_decryption(MasterData, Meta(master_node_id),
                              id_numbers, from,
                              Head(cluster[<<from, master_node_id>>]), TRUE)
                 IN r.ret = InvalidNodeForRequest /\ r.data = MasterData

\* a response to the abandoned round arrives from a node that is asked
\* again in the new round
C14_StaleResponseFromAskedNode ==
    \E from \in Slaves :
        /\ StaleResponseNext(from)
        /\ from \in MasterData.consensus_session.computation_job.requests

\* the PartialDecryption messages a node may send for the master's current
\* compute round: the response the master has recorded for it, if any, and
\* the one it computes for the current request
PartialDecryptionsOf(n) ==
    LET job == MasterData.consensus_session.computation_job
        computed == dj_partial_response(n, threshold,
                        [ request_id |-> job.request_id,
                          is_shadow_decryption |-> job.is_shadow_decryption,
                          other_nodes_ids |-> ComputeQuorum \cup {n} ])
        recorded == IF n \in DOMAIN job.responses THEN {job.responses[n]} ELSE {}
    IN { JobTransport_send_partial_response(master_node_id, response).msg :
            response \in {computed} \cup recorded }

\* C15: while the master waits for partial results, a PartialDecryption of
\* the current round from a node whose response is already recorded, or from
\* a node outside the compute quorum, is rejected with InvalidNodeForRequest
\* and leaves the session (responses, consensus state, result) unchanged
C15_DuplicateOrOutsiderIsRejected ==
    MasterState = WaitingForPartialResults =>
        \A sender \in id_numbers :
            (\/ sender \in DOMAIN MasterData.consensus_session.computation_job.responses
             \/ sender \notin ComputeQuorum) =>
                \A message \in PartialDecryptionsOf(sender) :
                    LET r == on_partial_decryption(MasterData, Meta(master_node_id),
                                 id_numbers, sender, message, TRUE)
                    IN /\ r.ret = InvalidNodeForRequest
                       /\ r.data = MasterData
                       /\ r.out = << >>
                       /\ ~r.notify

\* the master waits for partial results with the response of a slave
\* recorded and another slave outside the compute quorum
C15_ResponseRecordedAndOutsider ==
    /\ MasterState = WaitingForPartialResults
    /\ Slaves \cap DOMAIN MasterData.consensus_session.computation_job.responses # {}
    /\ Slaves \ ComputeQuorum # {}

\* RequestPartialDecryption as a slave may receive it: any set of nodes
RequestPartialDecryptionFor(nodes) ==
    [Msg("RequestPartialDecryption") EXCEPT !.request_id = 1, !.nodes = nodes]

\* C16: a slave that has accepted the consensus initialization (it is in
\* ConsensusEstablished) answers RequestPartialDecryption with InvalidMessage,
\* sends nothing and keeps its state whenever the sender is not the master,
\* the nodes set has not exactly threshold + 1 members, or the slave is not
\* in the nodes set
C16_SlaveRejectsInvalidRequest ==
    LET master == master_node_id
        accepted == {n \in id_numbers \ {master} :
                        SessionState(n) = ConsensusEstablished}
    IN \A nodes \in SUBSET id_numbers :
          LET message == RequestPartialDecryptionFor(nodes)
              right_number == Cardinality(nodes) = threshold + 1
          IN \A n \in accepted, sender \in id_numbers :
                (/\ sender # n
                 /\ (sender # master \/ ~right_number \/ n \notin nodes)) =>
                    LET r == on_partial_decryption_requested(data[n], Meta(n),
                                 sender, message)
                    IN /\ r.ret = InvalidMessage
                       /\ r.out = << >>
                       /\ r.data = data[n]

\* a slave of the five-node cluster has accepted the consensus
\* initialization and has not been asked for its partial decryption yet
C16_SlaveAwaitsRequest ==
    \E n \in Slaves :
        /\ Cardinality(id_numbers) = 5
        /\ SessionState(n) = ConsensusEstablished
        /\ acl[n]
        /\ cluster[<<master_node_id, n>>] = << >>
        /\ MasterState = EstablishingConsensus

\* C17: SessionImpl::new returns NotStartedSessionId when common_point or
\* encrypted_point is missing; otherwise InvalidNodesConfiguration when the
\* node is not in id_numbers; otherwise InvalidThreshold when there are
\* fewer than threshold + 1 participants; otherwise it succeeds, as it does
\* for a single node with threshold 0
C17_NewReturnsFirstFailedPrecondition ==
    \A n \in DOMAIN constructed :
        /\ constructed[n] =
              IF key_points.common_point = {} \/ key_points.encrypted_point = {}
              THEN NotStartedSessionId
              ELSE IF n \notin id_numbers THEN InvalidNodesConfiguration
              ELSE IF Cardinality(id_numbers) < threshold + 1 THEN InvalidThreshold
              ELSE Ok
        /\ (/\ id_numbers = {n} /\ threshold = 0
            /\ key_points.common_point # {} /\ key_points.encrypted_point # {}) =>
               constructed[n] = Ok /\ data[n] = SessionNew
        /\ n \in DOMAIN data <=> constructed[n] = Ok

\* a node outside a key share with too few participants for its threshold
\* was refused as not being a part of the cluster
C17_OutsiderOfSmallShareRefused ==
    \E n \in DOMAIN constructed :
        /\ n \notin id_numbers
        /\ Cardinality(id_numbers) < threshold + 1
        /\ id_numbers # {}
        /\ constructed[n] = InvalidNodesConfiguration

RefusedAsTerminal(n, r) ==
    /\ r.ret = InvalidStateForRequest
    /\ r.data.consensus_session.state = data[n].consensus_session.state

\* C19: once the session of a node is terminal, initialize, process_message
\* of every message that reaches it, and the error path of on_node_timeout
\* and on_session_timeout return InvalidStateForRequest and leave the
\* consensus state unchanged
C19_TerminalSessionRefusesCalls ==
    \A n \in id_numbers :
        is_finished(data[n]) =>
            /\ n = master_node_id =>
                  \A b \in BOOLEAN :
                      RefusedAsTerminal(n, initialize(data[n], Meta(n), id_numbers,
                                                      acl[n], b, request_ids + 1))
            /\ \A from \in id_numbers \ {n} :
                  cluster[<<from, n>>] # << >> =>
                      RefusedAsTerminal(n, process_message(data[n], Meta(n), id_numbers,
                                               from, Head(cluster[<<from, n>>]), acl[n],
                                               request_ids + 1, TRUE))
            /\ \A node \in id_numbers \ {n} :
                  RefusedAsTerminal(n, process_node_error(data[n], Meta(n), {node},
                                                          request_ids + 1))
            /\ RefusedAsTerminal(n, process_node_error(data[n], Meta(n), {},
                                                       request_ids + 1))

\* C20: a slave session never stores a result, whatever messages, node
\* timeouts (the master's included) and session timeouts it has processed
C20_SlaveNeverStoresResult ==
    \A n \in Slaves : data[n].result = {}

\* the master's consensus job
MasterConsensusJob == MasterData.consensus_session.consensus_job

\* C21: in the master's consensus job the nodes still requested, the
\* confirmed nodes (responses) and the rejected nodes are pairwise disjoint;
\* a node leaves requested only into confirmed or rejected; rejected only
\* grows, and a rejected node is never requested or confirmed again, also
\* when the compute round is restarted
C21_ConsensusSetsDisjointRejectedGrows ==
    [][LET job == MasterConsensusJob
           job2 == MasterConsensusJob'
           confirmed == DOMAIN job.responses
           confirmed2 == DOMAIN job2.responses
       IN /\ job2.requests \cap confirmed2 = {}
          /\ job2.requests \cap job2.rejects = {}
          /\ confirmed2 \cap job2.rejects = {}
          /\ job.state # "Inactive" =>
                /\ \A n \in job.requests \ job2.requests :
                      n \in confirmed2 \cup job2.rejects
                /\ job.rejects \subseteq job2.rejects
                /\ job2.requests \subseteq job.requests
                /\ confirmed2 \subseteq confirmed \cup job.requests]_vars

\* a confirmed node was rejected when it timed out, and the master
\* finished in a later compute round without it
C21_ConfirmedNodeRejectedThenFinished ==
    /\ MasterOk
    /\ MasterData.consensus_session.computation_job.request_id >= 2
    /\ \E n \in MasterConsensusJob.rejects : acl[n]
    /\ MasterConsensusJob.rejects \cap
          DOMAIN MasterData.consensus_session.computation_job.responses = {}

\* the slaves whose access check denies the requester
DenyingSlaves == {n \in Slaves : ~acl[n]}

\* the access check denies at exactly one slave and approves on the master
OneSlaveDenies == Cardinality(DenyingSlaves) = 1 /\ acl[master_node_id]

\* the master's consensus job has been started by initialize
ConsensusJobStarted == MasterConsensusJob.state # "Inactive"

\* C22 as stated: with 5 nodes and threshold 3, when the access check denies
\* at exactly one slave and the master has lost at most one connection, the
\* started session is not Failed
C22_RecoversFromDenialAndDisconnect ==
    (OneSlaveDenies /\ ConsensusJobStarted /\ faults <= 1) => MasterState # Failed

\* C22: with 5 nodes and threshold 3 and denial at exactly one slave, the
\* master of a started session is not failed by the denial or by the
\* disconnect of the denying slave alone; once the denying slave and an
\* approving slave are both rejected it is Failed, with no result other
\* than ConsensusUnreachable; and it is Finished only if no approving node
\* has been rejected
C22_DenialAndOtherDisconnectFail ==
    LET rejects == MasterConsensusJob.rejects
    IN OneSlaveDenies =>
          /\ (ConsensusJobStarted /\ rejects \subseteq DenyingSlaves) =>
                MasterState # Failed
          /\ (DenyingSlaves \subseteq rejects /\ rejects \ DenyingSlaves # {}) =>
                /\ MasterState = Failed
                /\ MasterData.result \subseteq {ResErr(ConsensusUnreachable)}
          /\ MasterState = Finished => rejects \subseteq DenyingSlaves

\* one slave denied, one approving slave timed out, nothing else went wrong,
\* and the master failed
C22_FailedAfterDenialAndOneTimeout ==
    /\ OneSlaveDenies
    /\ faults = 1
    /\ DenyingSlaves \subseteq MasterConsensusJob.rejects
    /\ Cardinality(MasterConsensusJob.rejects) = 2
    /\ MasterState = Failed
    /\ MasterData.result = {ResErr(ConsensusUnreachable)}

\* the position of a consensus state in the order of phases
Phase(state) ==
    CASE state = WaitingForInitialization -> 0
      [] state = EstablishingConsensus -> 1
      [] state = ConsensusEstablished -> 2
      [] state = WaitingForPartialResults -> 3
      [] state = Finished -> 4
      [] state = Failed -> 5

\* C23 as stated: no step moves a session that is not Failed to an earlier
\* phase, and a Failed session stays Failed
C23_PhaseNeverDecreases ==
    [][\A n \in id_numbers :
          Phase(SessionState(n)') >= Phase(SessionState(n))]_vars

\* C23: no step moves a session to an earlier phase except the loss of a
\* node of the compute round, which moves the master from
\* WaitingForPartialResults back to EstablishingConsensus while rejecting
\* that node; a session never returns to WaitingForInitialization, and
\* Finished and Failed are absorbing
C23_PhaseDecreasesOnlyOnRestart ==
    [][\A n \in id_numbers :
          /\ \/ Phase(SessionState(n)') >= Phase(SessionState(n))
             \/ /\ n = master_node_id
                /\ SessionState(n) = WaitingForPartialResults
                /\ SessionState(n)' = EstablishingConsensus
                /\ MasterConsensusJob'.rejects # MasterConsensusJob.rejects
          /\ SessionState(n) \in {Finished, Failed} =>
                SessionState(n)' = SessionState(n)]_vars

\* the master has started a compute round and is establishing consensus
\* again
C23_MasterBackToEstablishingConsensus ==
    /\ MasterState = EstablishingConsensus
    /\ ComputeRoundStarted
    /\ MasterConsensusJob.rejects # {}

\* the master's computation job
MasterComputationJob == MasterData.consensus_session.computation_job

\* the RequestPartialDecryption messages of the given compute round that are
\* queued from the master to node p
RequestsQueuedFor(queues, p, request_id) ==
    { queues[<<master_node_id, p>>][i] : i \in
        { j \in DOMAIN queues[<<master_node_id, p>>] :
            /\ queues[<<master_node_id, p>>][j].type = "RequestPartialDecryption"
            /\ queues[<<master_node_id, p>>][j].request_id = request_id } }

\* C24: each step in which the master disseminates jobs (the compute round
\* gets a new request id) selects a quorum of exactly threshold + 1 nodes,
\* all confirmed and none rejected, queues a RequestPartialDecryption of that
\* round for every selected peer and for no other node, each carrying the
\* selected quorum as its nodes; within a round the quorum never gains a
\* node; and the step in which the master becomes Finished leaves exactly
\* threshold + 1 responses, all of the current round, and no open request
C24_QuorumOfExactlyThresholdPlusOne ==
    [][LET master == master_node_id
           job == MasterComputationJob
           job2 == MasterComputationJob'
           consensus2 == MasterConsensusJob'
           group == job.requests \cup DOMAIN job.responses
           group2 == job2.requests \cup DOMAIN job2.responses
       IN /\ job2.request_id # job.request_id =>
                /\ Cardinality(group2) = threshold + 1
                /\ group2 \subseteq DOMAIN consensus2.responses
                /\ group2 \cap consensus2.rejects = {}
                /\ \A p \in id_numbers \ {master} :
                      RequestsQueuedFor(cluster', p, job2.request_id) =
                         IF p \in group2
                         THEN { [Msg("RequestPartialDecryption")
                                   EXCEPT !.request_id = job2.request_id,
                                          !.is_shadow_decryption =
                                             job2.is_shadow_decryption,
                                          !.nodes = group2] }
                         ELSE {}
          /\ job2.request_id = job.request_id => group2 \subseteq group
          /\ (MasterState # Finished /\ MasterState' = Finished) =>
                /\ Cardinality(DOMAIN job2.responses) = threshold + 1
                /\ job2.requests = {}
                /\ \A n \in DOMAIN job2.responses :
                      job2.responses[n].request_id = job2.request_id]_vars

\* the master finished in a second compute round with the responses of a
\* quorum of threshold + 1 nodes
C24_FinishedWithSecondQuorum ==
    /\ MasterState = Finished
    /\ MasterComputationJob.request_id >= 2
    /\ Cardinality(DOMAIN MasterComputationJob.responses) = threshold + 1
    /\ Cardinality(id_numbers \ DOMAIN MasterComputationJob.responses) = 1

\* the consensus messages a session may be handed
ConsensusMessages ==
    { Msg("InitializeConsensusSession") } \cup
    { [Msg("ConfirmConsensusInitialization") EXCEPT !.is_confirmed = b] :
         b \in BOOLEAN }

\* the call with outcome r on the session d disseminated the jobs: it
\* started a compute round or queued a RequestPartialDecryption
Disseminates(d, r) ==
    \/ r.data.consensus_session.computation_job.request_id
          # d.consensus_session.computation_job.request_id
    \/ \E i \in DOMAIN r.out : r.out[i].msg.type = "RequestPartialDecryption"

\* the call with outcome r on the session d of node n neither panics nor
\* disseminates the jobs of a session whose is_shadow_decryption is None or
\* that is not the master's
DisseminatesOnlyWithFlag(n, d, r) ==
    /\ r.ret # Panic
    /\ Disseminates(d, r) => (n = master_node_id /\ d.is_shadow_decryption # {})

\* C25: whatever consensus message, node error or session timeout a
\* session processes in a reachable state, the call does not panic, and it
\* disseminates the jobs only on the master and only when
\* is_shadow_decryption is Some; so a slave and a master that never called
\* initialize never reach the dissemination branches
C25_DisseminationOnlyWithShadowFlag ==
    \A n \in id_numbers :
        /\ \A sender \in id_numbers \ {n}, message \in ConsensusMessages :
              DisseminatesOnlyWithFlag(n, data[n],
                  on_consensus_message(data[n], Meta(n), sender, message, acl[n],
                                       request_ids + 1))
        /\ \A node \in {{}} \cup {{x} : x \in id_numbers \ {n}} :
              DisseminatesOnlyWithFlag(n, data[n],
                  process_node_error(data[n], Meta(n), node, request_ids + 1))

\* a compute round was given up after the loss of a quorum member, the
\* master is establishing consensus again, and the confirmation of a slave
\* would make it disseminate the jobs
C25_MasterAboutToDisseminate ==
    /\ MasterData.is_shadow_decryption # {}
    /\ MasterState = EstablishingConsensus
    /\ ComputeRoundStarted
    /\ \E from \in Slaves :
          Disseminates(MasterData,
              on_consensus_message(MasterData, Meta(master_node_id), from,
                  [Msg("ConfirmConsensusInitialization") EXCEPT !.is_confirmed = TRUE],
                  acl[master_node_id], request_ids + 1))

\* the PartialDecryption messages a slave may send to the master
PartialDecryptionMessages ==
    { [Msg("PartialDecryption") EXCEPT !.request_id = id, !.shadow_point = point] :
         id \in 0..(request_ids + 1), point \in {0, 1} }

\* the call with outcome r on the master is refused with the error err:
\* nothing is sent, nobody is woken and the session data is unchanged
MasterRefuses(r, err) ==
    /\ r.ret = err
    /\ r.data = MasterData
    /\ r.out = << >>
    /\ ~r.notify

\* C26: a PartialDecryption from any slave to a master that has not
\* disseminated jobs is refused with InvalidStateForRequest, and an
\* InitializeConsensusSession from any slave to a master on which initialize
\* has been called is refused with InvalidMessage; neither changes the
\* session
C26_WrongPhaseMessagesRefused ==
    LET master == master_node_id
    IN \A from \in id_numbers \ {master} :
          /\ ~ComputeRoundStarted =>
                \A message \in PartialDecryptionMessages :
                    MasterRefuses(on_partial_decryption(MasterData, Meta(master),
                                      id_numbers, from, message, TRUE),
                                  InvalidStateForRequest)
          /\ Initialized =>
                MasterRefuses(on_consensus_message(MasterData, Meta(master), from,
                                  Msg("InitializeConsensusSession"), acl[master],
                                  request_ids + 1),
                              InvalidMessage)

\* an initialized master that is still establishing its first consensus
\* refuses both messages of a slave
C26_EstablishingMasterRefusesBoth ==
    /\ Initialized
    /\ MasterState = EstablishingConsensus
    /\ ~ComputeRoundStarted
    /\ \E from \in Slaves :
          /\ on_partial_decryption(MasterData, Meta(master_node_id), id_numbers, from,
                 [Msg("PartialDecryption") EXCEPT !.request_id = 1], TRUE).ret
                = InvalidStateForRequest
          /\ on_consensus_message(MasterData, Meta(master_node_id), from,
                 Msg("InitializeConsensusSession"), acl[master_node_id],
                 request_ids + 1).ret = InvalidMessage

\* C27: on a slave in ConsensusEstablished, on_node_timeout for a node that
\* is neither the slave nor the master leaves the slave's session as it
\* was, so its state stays ConsensusEstablished and its result None; it
\* sends nothing and wakes nobody, so nothing reaches the master
C27_SlaveIgnoresTimeoutOfNonMaster ==
    LET master == master_node_id
    IN \A n \in id_numbers \ {master} :
          SessionState(n) = ConsensusEstablished =>
              \A node \in id_numbers \ {n, master} :
                  LET r == on_node_timeout(data[n], Meta(n), node, request_ids + 1)
                  IN /\ r.data.consensus_session.state = ConsensusEstablished
                     /\ r.data.result = {}
                     /\ r.data = data[n]
                     /\ r.out = << >>
                     /\ ~r.notify

\* completed.wait() returns although completed was not notified: a thread
\* blocked in Session::wait is woken while the result may still be None
SpuriousWakeup ==
    \E w \in Waiters :
        /\ wait_pc[w] = "waiting"
        /\ wait_pc' = [wait_pc EXCEPT ![w] = "woken"]
        /\ UNCHANGED << id_numbers, threshold, key_points, constructed, acl, data,
                        cluster, completed, wait_ret, request_ids, faults >>

\* runs without faults in which the condition variable may wake a waiter
\* spuriously
NextSpurious ==
    \/ Initialize
    \/ Deliver
    \/ WaitCall
    \/ WaitReturn
    \/ SpuriousWakeup

SpecSpurious == Init /\ [][NextSpurious]_vars

\* C28: a thread that was woken in wait while the result is still None goes
\* back to waiting: its next step neither returns nor panics
C28_WaitRechecksResultAfterWakeup ==
    [][\A w \in Waiters :
          (wait_pc[w] = "woken" /\ MasterData.result = {} /\ wait_pc'[w] # "woken") =>
              wait_pc'[w] = "waiting"]_vars

\* C29: the step in which the master becomes Finished records an Ok result
\* and leaves no thread blocked in wait, also when the broadcast of
\* DecryptionSessionCompleted returns an error
C29_FinishedMasterRecordsResult ==
    [][(MasterState # Finished /\ MasterState' = Finished) =>
          /\ MasterData'.result # {}
          /\ \A res \in MasterData'.result : res.ok
          /\ \A w \in Waiters : wait_pc'[w] # "waiting"]_vars

\* C30: no wakeup is lost between wait and completion. The step that
\* records the master's result wakes every thread blocked in wait; a thread
\* that calls wait after the result was recorded returns it without
\* blocking; a woken thread returns the recorded result; and no thread is
\* blocked while a result is recorded
C30_NoLostWakeup ==
    [][\A w \in Waiters :
          /\ (MasterData.result = {} /\ MasterData'.result # {}) =>
                /\ wait_pc[w] = "waiting" => wait_pc'[w] = "woken"
                /\ wait_pc'[w] # "waiting"
          /\ (wait_pc[w] = "idle" /\ wait_pc'[w] # "idle" /\ MasterData.result # {}) =>
                /\ wait_pc'[w] = "done"
                /\ wait_ret'[w] = MasterData.result
          /\ (wait_pc[w] = "woken" /\ wait_pc'[w] # "woken") =>
                /\ wait_pc'[w] = "done"
                /\ wait_ret'[w] # {}
                /\ wait_ret'[w] = MasterData.result
          /\ wait_pc'[w] = "waiting" => MasterData'.result = {}]_vars

\* a thread that blocked in wait before the master finished has been woken
\* by the completion and has the Ok result to return
C30_WaiterWokenByCompletion ==
    \E w \in Waiters :
        /\ wait_pc[w] = "woken"
        /\ MasterState = Finished
        /\ MasterOk

\* C31: an initialize call on a master whose consensus session has left
\* WaitingForInitialization (a second call) that returns an error leaves the
\* session data unchanged, is_shadow_decryption included, sends nothing and
\* wakes nobody
C31_RefusedInitializeChangesNothing ==
    \A b \in BOOLEAN :
        LET r == initialize(MasterData, Meta(master_node_id), id_numbers,
                            acl[master_node_id], b, request_ids + 1)
        IN (MasterState # WaitingForInitialization /\ ~IsOk(r.ret)) =>
              /\ r.data = MasterData
              /\ r.out = << >>
              /\ ~r.notify

====
